---- MODULE Spec2Model ----
(***************************************************************************)
(* crc8-rs: 8-bit cyclic redundancy checks over fixed-size byte buffers.   *)
(*                                                                         *)
(* A Polynomial<MAX_BYTES> is a sequence of MAX_BYTES bytes, index 1 the   *)
(* most significant (Rust index 0).  The public functions fetch_crc8,      *)
(* has_valid_crc8 and insert_crc8 of src/src/lib.rs are thin wrappers      *)
(* around Polynomial's Div, whose while loop is run one body per step.     *)
(***************************************************************************)
EXTENDS Integers, Sequences, FiniteSets, TLC

VARIABLES
    data,        \* the buffer the caller holds / the callee's local copy
    polynomial,  \* the generator byte passed to the public functions
    op,          \* the function being executed ("none" before the first call)
    pc,          \* "idle" | "div" | "ret" | "done" | "panicked"
    self,        \* Div::div: the dividend, rewritten by every loop body
    rhs,         \* Div::div: the divisor
    iters,       \* history: loop bodies executed by the current division
    result,      \* <<>> while nothing was returned, <<v>> once v was returned
    arg,         \* history: the buffer as it was passed to the current call
    prior,       \* history: <<s>> once the caller holds s = insert_crc8(b, g)
    corrupted    \* history: <<i, old, new>> once byte i of s was overwritten

vars == <<data, polynomial, op, pc, self, rhs, iters, result, arg, prior, corrupted>>

----------------------------------------------------------------------------
(* Bounds of the model.                                                    *)

\* Longest buffer handed to the public functions (DATA_SIZE ranges over 0..MaxBytes).
MaxBytes == 2

\* Widest polynomial handed to Div directly (MAX_BYTES ranges over 1..MaxDivBytes).
MaxDivBytes == 2

----------------------------------------------------------------------------
(* u8 and usize arithmetic.                                                *)

Byte == 0..255

\* usize::MAX + 1 of the narrowest target the crate builds for; a wrapped
\* subtraction lands at or above this minus 8 * MAX_BYTES on every target.
UsizeModulus == 2^16

\* byte & (0x01 << k) != 0
HasBit(byte, k) == (byte \div (2^k)) % 2 = 1

RECURSIVE XorBits(_, _, _)
XorBits(a, b, n) ==
    IF n = 0 THEN 0
    ELSE ((a + b) % 2) + 2 * XorBits(a \div 2, b \div 2, n - 1)

\* a ^ b on u8
Xor8(a, b) == XorBits(a, b, 8)

RECURSIVE OrBits(_, _, _)
OrBits(a, b, n) ==
    IF n = 0 THEN 0
    ELSE (IF a % 2 = 1 \/ b % 2 = 1 THEN 1 ELSE 0) + 2 * OrBits(a \div 2, b \div 2, n - 1)

\* a | b on u8
Or8(a, b) == OrBits(a, b, 8)

\* a << s on u8, 0 <= s < 8: the bits shifted past bit 7 are discarded
Shl8(a, s) == (a * (2^s)) % 256

\* a >> s on u8, 0 <= s < 8
Shr8(a, s) == a \div (2^s)

----------------------------------------------------------------------------
(* Polynomial (src/src/polynomial.rs).                                     *)

Zeroes(n) == [i \in 1..n |-> 0]

\* Polynomial::rotate_left
rotate_left(arr, n) ==
    IF n >= Len(arr) THEN Zeroes(Len(arr))
    ELSE [i \in 1..Len(arr) |-> IF i <= Len(arr) - n THEN arr[i + n] ELSE 0]

\* bit_len testing 0x01 << bit_index instead of 0x01 << (7 - bit_index).
RECURSIVE bit_len_scan_lsb_first(_, _)
bit_len_scan_lsb_first(arr, k) ==
    IF k >= Len(arr) * 8 THEN 0
    ELSE IF HasBit(arr[(k \div 8) + 1], k % 8)
         THEN (Len(arr) * 8) - k - 1
         ELSE bit_len_scan_lsb_first(arr, k + 1)

\* The scan of bit_len: k = byte_index * 8 + bit_index, most significant first.
RECURSIVE bit_len_scan(_, _)
bit_len_scan(arr, k) ==
    IF k >= Len(arr) * 8 THEN 0
    ELSE IF HasBit(arr[(k \div 8) + 1], 7 - (k % 8))
         THEN (Len(arr) * 8) - k - 1
         ELSE bit_len_scan(arr, k + 1)

\* Polynomial::bit_len
bit_len(arr) == bit_len_scan(arr, 0)

\* is_more_sign walking the bits of the differing byte without .rev().
RECURSIVE more_sign_bits_ascending(_, _, _)
more_sign_bits_ascending(self_byte, cmp_byte, bit_index) ==
    IF bit_index < 0 THEN FALSE
    ELSE IF HasBit(self_byte, 7 - bit_index) = HasBit(cmp_byte, 7 - bit_index)
         THEN more_sign_bits_ascending(self_byte, cmp_byte, bit_index - 1)
         ELSE HasBit(self_byte, 7 - bit_index)

\* The inner loop of is_more_sign over one differing byte, bit 7 down to bit 0.
RECURSIVE more_sign_bits(_, _, _)
more_sign_bits(self_byte, cmp_byte, bit_index) ==
    IF bit_index < 0 THEN FALSE
    ELSE IF HasBit(self_byte, bit_index) = HasBit(cmp_byte, bit_index)
         THEN more_sign_bits(self_byte, cmp_byte, bit_index - 1)
         ELSE HasBit(self_byte, bit_index)

\* is_more_sign ending in true: equal polynomials count as more significant.
RECURSIVE more_sign_bytes_or_equal(_, _, _)
more_sign_bytes_or_equal(self_arr, cmp_arr, byte_index) ==
    IF byte_index > Len(self_arr) THEN TRUE
    ELSE IF self_arr[byte_index] = cmp_arr[byte_index]
         THEN more_sign_bytes_or_equal(self_arr, cmp_arr, byte_index + 1)
         ELSE more_sign_bits(self_arr[byte_index], cmp_arr[byte_index], 7)

\* The outer loop of is_more_sign, byte_index (1-based) upwards.
RECURSIVE more_sign_bytes(_, _, _)
more_sign_bytes(self_arr, cmp_arr, byte_index) ==
    IF byte_index > Len(self_arr) THEN FALSE
    ELSE IF self_arr[byte_index] = cmp_arr[byte_index]
         THEN more_sign_bytes(self_arr, cmp_arr, byte_index + 1)
         ELSE more_sign_bits(self_arr[byte_index], cmp_arr[byte_index], 7)

\* Polynomial::is_more_sign
is_more_sign(self_arr, cmp_arr) == more_sign_bytes(self_arr, cmp_arr, 1)

\* new_from_byte writing arr[0], "the first place" of its comment.
new_from_byte_first(n, byte) == [i \in 1..n |-> IF i = 1 THEN byte ELSE 0]

\* Polynomial::new_from_byte, MAX_BYTES >= 1
new_from_byte(n, byte) == [i \in 1..n |-> IF i = n THEN byte ELSE 0]

\* shl carrying rotated[i+1] >> shl_amount instead of >> (8 - shl_amount).
shl_wrong_carry(arr, amount) ==
    LET rotated    == rotate_left(arr, amount \div 8)
        shl_amount == amount % 8
        n          == Len(arr)
    IN  IF shl_amount = 0 THEN rotated
        ELSE [i \in 1..n |->
                IF i < n
                THEN Or8(Shl8(rotated[i], shl_amount), Shr8(rotated[i + 1], shl_amount))
                ELSE Shl8(rotated[n], shl_amount)]

\* shl without the bits carried in from the next byte.
shl_no_carry(arr, amount) ==
    LET rotated    == rotate_left(arr, amount \div 8)
        shl_amount == amount % 8
    IN  IF shl_amount = 0 THEN rotated
        ELSE [i \in 1..Len(arr) |-> Shl8(rotated[i], shl_amount)]

\* Shl<usize>::shl
shl(arr, amount) ==
    LET rotated    == rotate_left(arr, amount \div 8)
        shl_amount == amount % 8
        n          == Len(arr)
    IN  IF shl_amount = 0 THEN rotated
        ELSE [i \in 1..n |->
                IF i < n
                THEN Or8(Shl8(rotated[i], shl_amount), Shr8(rotated[i + 1], 8 - shl_amount))
                ELSE Shl8(rotated[n], shl_amount)]

\* Sub::sub
sub(x, y) == [i \in 1..Len(x) |-> Xor8(x[i], y[i])]

\* The bit lengths subtracted the other way round.
shift_amount_swapped(s, r) == (bit_len(r) - bit_len(s)) % UsizeModulus

\* self.bit_len() - rhs.bit_len() on usize in a build without overflow checks
shift_amount(s, r) == (bit_len(s) - bit_len(r)) % UsizeModulus

\* The body of Div::div's loop: self - (rhs << (self.bit_len() - rhs.bit_len()))
div_body(s, r) == sub(s, shl(r, shift_amount(s, r)))

----------------------------------------------------------------------------
(* Div::div, one loop body per step.                                       *)

\* while !rhs.is_more_sign(self) { self = self - (rhs << ...) }
\* The subtraction of the bit lengths panics in a build with overflow checks
\* and wraps in one without.
div_step ==
    /\ pc = "div"
    /\ ~is_more_sign(rhs, self)
    /\ IF bit_len(self) < bit_len(rhs)
       THEN \E overflow_checks \in BOOLEAN :
              IF overflow_checks
              THEN pc' = "panicked" /\ self' = self
              ELSE pc' = "div" /\ self' = div_body(self, rhs)
       ELSE pc' = "div" /\ self' = div_body(self, rhs)
    /\ iters' = IF iters > 8 * Len(self) THEN iters ELSE iters + 1
    /\ UNCHANGED <<data, polynomial, op, rhs, result, arg, prior, corrupted>>

\* The loop test fails: div returns self.
div_exit ==
    /\ pc = "div"
    /\ is_more_sign(rhs, self)
    /\ pc' = IF op = "div" THEN "done" ELSE "ret"
    /\ result' = IF op = "div" THEN <<self>> ELSE result
    /\ UNCHANGED <<data, polynomial, op, self, rhs, iters, arg, prior, corrupted>>

----------------------------------------------------------------------------
(* Polynomial(num) / Polynomial(denum), as div_test_vectors calls it.      *)

DividendBytes == {0, 1, 63, 126, 128, 255}   \* 0x00 0x01 0x3f 0x7e 0x80 0xff
DivisorBytes  == {0, 1, 27, 128, 166}        \* 0x00 0x01 0x1b 0x80 0xa6

Polys(bytes, n) == [1..n -> bytes]

DivInit ==
    /\ \E n \in 1..MaxDivBytes :
          /\ self \in Polys(DividendBytes, n)
          /\ rhs \in Polys(DivisorBytes, n)
    /\ arg = self
    /\ data = self
    /\ polynomial = 0
    /\ op = "div"
    /\ pc = "div"
    /\ iters = 0
    /\ result = <<>>
    /\ prior = <<>>
    /\ corrupted = <<>>

DivNext == div_step \/ div_exit

DivSpec == DivInit /\ [][DivNext]_vars

----------------------------------------------------------------------------
(* The public functions (src/src/lib.rs).                                  *)

\* The functions returning a sentinel for the empty buffer instead of
\* indexing it.
Enter_sentinel(name, zero_last) ==
    /\ pc = "idle"
    /\ op' = name
    /\ arg' = data
    /\ iters' = 0
    /\ IF Len(data) = 0
       THEN /\ pc' = "done"
            /\ result' = <<data>>
            /\ UNCHANGED <<data, self, rhs>>
       ELSE /\ data' = IF zero_last THEN [data EXCEPT ![Len(data)] = 0] ELSE data
            /\ self' = data'
            /\ rhs' = new_from_byte(Len(data), polynomial)
            /\ pc' = "div"
            /\ result' = <<>>
    /\ UNCHANGED <<polynomial, prior, corrupted>>

\* What the three functions do before the division starts.  fetch_crc8 builds
\* Polynomial(data) and Polynomial::new_from_byte(polynomial); insert_crc8
\* first zeroes data[DATA_SIZE - 1].  With DATA_SIZE = 0 the index
\* DATA_SIZE - 1 (MAX_BYTES - 1 in new_from_byte) panics: on the subtraction
\* with overflow checks, on the array bound without.
Enter(name, zero_last) ==
    /\ pc = "idle"
    /\ op' = name
    /\ arg' = data
    /\ iters' = 0
    /\ result' = <<>>
    /\ IF Len(data) = 0
       THEN /\ pc' = "panicked"
            /\ UNCHANGED <<data, self, rhs>>
       ELSE /\ data' = IF zero_last THEN [data EXCEPT ![Len(data)] = 0] ELSE data
            /\ self' = data'
            /\ rhs' = new_from_byte(Len(data), polynomial)
            /\ pc' = "div"
    /\ UNCHANGED <<polynomial, prior, corrupted>>

fetch_crc8_call == Enter("fetch_crc8", FALSE)

has_valid_crc8_call == Enter("has_valid_crc8", FALSE)

\* insert_crc8 without data[DATA_SIZE - 1] = 0x00.
insert_crc8_call_keep_last == Enter("insert_crc8", FALSE)

insert_crc8_call == Enter("insert_crc8", TRUE)

\* fetch_crc8: result_arr[DATA_SIZE - 1]
fetch_crc8_ret ==
    /\ pc = "ret"
    /\ op = "fetch_crc8"
    /\ result' = <<self[Len(self)]>>
    /\ pc' = "done"
    /\ UNCHANGED <<data, polynomial, op, self, rhs, iters, arg, prior, corrupted>>

\* has_valid_crc8 over a fetch_crc8 that returns result_arr[0].
has_valid_crc8_ret_first ==
    /\ pc = "ret"
    /\ op = "has_valid_crc8"
    /\ result' = <<self[1] = 0>>
    /\ pc' = "done"
    /\ UNCHANGED <<data, polynomial, op, self, rhs, iters, arg, prior, corrupted>>

\* has_valid_crc8 comparing with != 0.
has_valid_crc8_ret_inverted ==
    /\ pc = "ret"
    /\ op = "has_valid_crc8"
    /\ result' = <<self[Len(self)] # 0>>
    /\ pc' = "done"
    /\ UNCHANGED <<data, polynomial, op, self, rhs, iters, arg, prior, corrupted>>

\* has_valid_crc8: fetch_crc8(data, polynomial) == 0
has_valid_crc8_ret ==
    /\ pc = "ret"
    /\ op = "has_valid_crc8"
    /\ result' = <<self[Len(self)] = 0>>
    /\ pc' = "done"
    /\ UNCHANGED <<data, polynomial, op, self, rhs, iters, arg, prior, corrupted>>

\* insert_crc8: data[DATA_SIZE - 1] = polynomial ^ fetch_crc8(data, polynomial); data
insert_crc8_ret ==
    /\ pc = "ret"
    /\ op = "insert_crc8"
    /\ data' = [data EXCEPT ![Len(data)] = Xor8(polynomial, self[Len(self)])]
    /\ result' = <<data'>>
    /\ pc' = "done"
    /\ UNCHANGED <<polynomial, op, self, rhs, iters, arg, prior, corrupted>>

----------------------------------------------------------------------------
(* The callers of the documentation, the example and crc_cycle.            *)

\* let msg = insert_crc8(*msg, GENERATOR_POLYNOMIAL): the caller keeps the
\* returned buffer; the callee's locals are gone.
sign_msg ==
    /\ pc = "done"
    /\ op = "insert_crc8"
    /\ prior = <<>>
    /\ data' = result[1]
    /\ prior' = <<result[1]>>
    /\ pc' = "idle"
    /\ op' = "none"
    /\ self' = <<>>
    /\ rhs' = <<>>
    /\ iters' = 0
    /\ result' = <<>>
    /\ arg' = <<>>
    /\ UNCHANGED <<polynomial, corrupted>>

\* tmp_msg[1] = b'a': one byte of the signed message is overwritten with
\* another value (c = <<index, xor mask>>, the mask non-zero).
corrupt_msg(c) ==
    /\ pc = "idle"
    /\ prior # <<>>
    /\ corrupted = <<>>
    /\ c[1] <= Len(data)
    /\ data' = [data EXCEPT ![c[1]] = Xor8(@, c[2])]
    /\ corrupted' = <<c[1], data[c[1]], data'[c[1]]>>
    /\ UNCHANGED <<polynomial, op, pc, self, rhs, iters, result, arg, prior>>

Calls ==
    \/ fetch_crc8_call
    \/ has_valid_crc8_call
    \/ insert_crc8_call
    \/ div_step
    \/ div_exit
    \/ fetch_crc8_ret
    \/ has_valid_crc8_ret
    \/ insert_crc8_ret
    \/ sign_msg

\* The inputs: every generator byte, buffers of 0..MaxBytes bytes.
Generators == Byte

BufferBytes == {0, 245}                    \* 0x00 0xf5

\* A single flipped bit in any byte.
BitFlips == {<<i, 2^k>> : i \in 1..MaxBytes, k \in 0..7}

Idle ==
    /\ op = "none"
    /\ pc = "idle"
    /\ self = <<>>
    /\ rhs = <<>>
    /\ iters = 0
    /\ result = <<>>
    /\ arg = <<>>
    /\ prior = <<>>
    /\ corrupted = <<>>

Init ==
    /\ \E n \in 0..MaxBytes : data \in Polys(BufferBytes, n)
    /\ polynomial \in Generators
    /\ Idle

Next == Calls \/ \E c \in BitFlips : corrupt_msg(c)

Spec == Init /\ [][Next]_vars

----------------------------------------------------------------------------
(* The end-to-end scenario of crc_cycle's first vector and the corruption  *)
(* of the documentation: byte 1 (Rust index) is overwritten.               *)

ExampleBuffer == <<2, 48, 240, 0>>          \* [0x02, 0x30, 0xf0, 0x00]

ExampleGenerator == 166                     \* 0xA6

\* Every other value of byte 1.
ByteChanges == {<<2, m>> : m \in 1..255}

ScenarioInit ==
    /\ data = ExampleBuffer
    /\ polynomial = ExampleGenerator
    /\ Idle

ScenarioNext == Calls \/ \E c \in ByteChanges : corrupt_msg(c)

ScenarioSpec == ScenarioInit /\ [][ScenarioNext]_vars

----------------------------------------------------------------------------
(* Reference arithmetic on natural numbers, independent of the byte        *)
(* arrays: the value of a buffer and GF(2) polynomial division.            *)

\* The buffer read as a big-endian unsigned integer.
RECURSIVE ValUpTo(_, _)
ValUpTo(arr, n) == IF n = 0 THEN 0 ELSE 256 * ValUpTo(arr, n - 1) + arr[n]

Val(arr) == ValUpTo(arr, Len(arr))

\* Position of the highest set bit of n > 0 (the degree of the polynomial).
RECURSIVE Deg(_)
Deg(n) == IF n <= 1 THEN 0 ELSE 1 + Deg(n \div 2)

RECURSIVE XorNat(_, _)
XorNat(a, b) ==
    IF a = 0 THEN b
    ELSE IF b = 0 THEN a
    ELSE ((a + b) % 2) + 2 * XorNat(a \div 2, b \div 2)

\* The remainder of a by d as polynomials over GF(2), d > 0.
RECURSIVE PolyMod(_, _)
PolyMod(a, d) ==
    IF a < 2^Deg(d) THEN a
    ELSE PolyMod(XorNat(a, d * 2^(Deg(a) - Deg(d))), d)

\* Number of set bits.
RECURSIVE PopCount(_)
PopCount(n) == IF n = 0 THEN 0 ELSE (n % 2) + PopCount(n \div 2)

\* Whether bit p of the value is set.
NatBit(n, p) == (n \div (2^p)) % 2 = 1

\* a has the 1-bit at the most significant position where a and b differ.
WinsAtTopDifference(a, b) ==
    LET diff == {p \in 0..(8 * Len(a) - 1) : NatBit(Val(a), p) # NatBit(Val(b), p)}
    IN  /\ diff # {}
        /\ NatBit(Val(a), CHOOSE p \in diff : \A q \in diff : q <= p)

\* The loop of Div::div is about to run its body / has just left.
InBody == pc = "div" /\ ~is_more_sign(rhs, self)

NonZero(arr) == Val(arr) # 0

----------------------------------------------------------------------------
(* C1.  Round trip.                                                        *)

\* insert_crc8 is running on the caller's unsigned buffer.
Signing == op = "insert_crc8" /\ pc = "div" /\ prior = <<>>

\* A check of the buffer insert_crc8 returned has returned.
CheckedSigned ==
    /\ pc = "done"
    /\ prior # <<>>
    /\ corrupted = <<>>
    /\ op \in {"fetch_crc8", "has_valid_crc8"}

\* fetch_crc8 returned 0, has_valid_crc8 returned true.
Valid ==
    /\ self[Len(self)] = 0
    /\ \/ op = "fetch_crc8" /\ result = <<0>>
       \/ op = "has_valid_crc8" /\ result = <<TRUE>>

\* The division of the running call ends: it has run at most N * 8 loop
\* bodies, and the body it is about to run changes the dividend (a body
\* that leaves self as it is would be repeated for ever).
DivisionEnds ==
    /\ iters <= 8 * Len(self)
    /\ InBody => div_body(self, rhs) # self

\* C1 as claimed: for every generator byte (all 256) and every buffer b of
\* length >= 1, insert_crc8(b, g) returns, and on the buffer it returned
\* fetch_crc8 returns 0 and has_valid_crc8 returns true.
C1_RoundTripEveryGenerator ==
    /\ Signing => DivisionEnds
    /\ CheckedSigned => Valid

\* C1 amended: for every non-zero generator byte (255 values) and every
\* buffer b of length >= 1, insert_crc8(b, g) returns, and on the buffer it
\* returned fetch_crc8 returns 0 and has_valid_crc8 returns true.
C1_RoundTripNonZeroGenerator ==
    /\ (Signing /\ polynomial # 0) => DivisionEnds
    /\ CheckedSigned => Valid

\* has_valid_crc8 returned true on a signed buffer of two or more bytes whose
\* division ran the loop body.
C1_Witness ==
    /\ CheckedSigned /\ Valid
    /\ op = "has_valid_crc8"
    /\ Len(data) >= 2
    /\ iters >= 2

----------------------------------------------------------------------------
(* C2.  Corruption of byte 1 in the end-to-end scenario.                   *)

\* has_valid_crc8 has returned on the signed example with byte 1 overwritten.
CheckedCorrupted ==
    /\ pc = "done"
    /\ op = "has_valid_crc8"
    /\ prior # <<>>
    /\ corrupted # <<>>

\* C2 as claimed: every other value of byte 1 of insert_crc8([0x02, 0x30,
\* 0xf0, 0x00], 0xA6) makes has_valid_crc8 return false.
C2_EveryCorruptionDetected ==
    CheckedCorrupted => result = <<FALSE>>

\* C2 amended: every other value v of byte 1 makes has_valid_crc8 return
\* false, except the three values with v XOR 0x30 in {0x53, 0xA6, 0xF5}
\* (0x63, 0x96, 0xC5), for which it returns true.
C2_CorruptionDetectedButThree ==
    CheckedCorrupted =>
        result = <<Xor8(corrupted[2], corrupted[3]) \in {83, 166, 245}>>

\* Byte 1 was 0x30, is now another value, and has_valid_crc8 returned false.
C2_Witness ==
    /\ CheckedCorrupted
    /\ corrupted[1] = 2 /\ corrupted[2] = 48 /\ corrupted[3] = 111
    /\ result = <<FALSE>>

----------------------------------------------------------------------------
(* C3.  Single-bit error detection.                                        *)

\* The overwritten byte differs from the signed one in exactly one bit.
SingleBitFlip ==
    /\ corrupted # <<>>
    /\ PopCount(Xor8(corrupted[2], corrupted[3])) = 1

\* Position of the flipped bit, counted from the buffer's least significant.
FlipPosition ==
    8 * (Len(data) - corrupted[1]) + Deg(Xor8(corrupted[2], corrupted[3]))

\* C3 as claimed: for every generator byte, flipping any single bit of a
\* signed buffer makes has_valid_crc8 return false.
C3_EveryBitFlipDetected ==
    (CheckedCorrupted /\ SingleBitFlip) => result = <<FALSE>>

\* C3 amended: for every generator byte with at least two set bits,
\* flipping any single bit of a signed buffer makes has_valid_crc8 return
\* false; for a generator with the single bit j set, has_valid_crc8 returns
\* false exactly for the flips of bits below j.
C3_BitFlipDetectedUnlessMonomial ==
    (CheckedCorrupted /\ SingleBitFlip) =>
        result = <<(PopCount(polynomial) = 1 /\ FlipPosition >= Deg(polynomial))>>

\* A flipped bit of the CRC byte of a signed two-byte buffer was detected
\* under a generator with several set bits.
C3_Witness ==
    /\ CheckedCorrupted /\ SingleBitFlip
    /\ PopCount(polynomial) >= 2
    /\ Len(data) >= 2
    /\ corrupted[1] = Len(data)
    /\ iters >= 1
    /\ result = <<FALSE>>

----------------------------------------------------------------------------
(* C4.  Totality.                                                          *)

\* A call on a buffer of length >= 1 is executing.
Running == pc \in {"div", "ret"}

Returned == pc = "done" /\ Len(result) = 1

\* C4 as claimed: for every buffer of length >= 1 and every generator byte,
\* 0x00 included, each call of fetch_crc8, has_valid_crc8 and insert_crc8
\* ends its division loop and, once done, has returned a value.
C4_EveryCallReturns ==
    /\ Running => DivisionEnds
    /\ pc = "done" => Returned

\* C4 amended: for every buffer of length >= 1 and every non-zero generator
\* byte, each call of fetch_crc8, has_valid_crc8 and insert_crc8 ends its
\* division loop and, once done, has returned a value.
C4_CallReturnsNonZeroGenerator ==
    /\ (Running /\ polynomial # 0) => DivisionEnds
    /\ pc = "done" => Returned

\* fetch_crc8 returned after its division ran the body eight times or more.
C4_Witness ==
    /\ Returned
    /\ op = "fetch_crc8"
    /\ polynomial # 0
    /\ iters >= 8

----------------------------------------------------------------------------
(* C5.  Fail-fast on the empty buffer.                                     *)

\* C5: a call of fetch_crc8, has_valid_crc8 or insert_crc8 with a
\* zero-length buffer has panicked: it returned no value and did not enter
\* the division loop.
C5_EmptyBufferPanics ==
    (op # "none" /\ Len(arg) = 0) =>
        /\ pc = "panicked"
        /\ result = <<>>
        /\ iters = 0
        /\ self = <<>>
        /\ rhs = <<>>

\* insert_crc8([], g) has panicked.
C5_Witness ==
    /\ op = "insert_crc8"
    /\ Len(arg) = 0
    /\ pc = "panicked"

----------------------------------------------------------------------------
(* C6.  insert_crc8 rewrites only the last byte and ignores its value.     *)

SamePrefix(b, c) ==
    /\ Len(b) = Len(c)
    /\ \A i \in 1..(Len(b) - 1) : b[i] = c[i]

\* C6: the buffer insert_crc8 returns agrees with its argument on bytes
\* 0..N-2, and equals the buffer insert_crc8 returned before for an
\* argument with the same bytes 0..N-2.
C6_InsertRewritesOnlyLastByte ==
    (pc = "done" /\ op = "insert_crc8") =>
        /\ SamePrefix(result[1], arg)
        /\ (prior # <<>> /\ SamePrefix(arg, prior[1])) => result[1] = prior[1]

\* insert_crc8 has returned the signed buffer again for an argument that
\* differs from it in the last byte only.
C6_Witness ==
    /\ pc = "done" /\ op = "insert_crc8"
    /\ prior # <<>>
    /\ Len(arg) >= 2
    /\ corrupted # <<>>
    /\ corrupted[1] = Len(arg)
    /\ arg # prior[1]
    /\ result[1] = prior[1]

----------------------------------------------------------------------------
(* C7.  Division returns the GF(2) remainder.                              *)

\* C7 as claimed: for a non-zero divisor d the value a / d returns is the
\* modulo-2 remainder of a by d, of degree strictly below the degree of d
\* whenever d has degree >= 1.
C7_RemainderIsGF2Remainder ==
    (op = "div" /\ pc = "done" /\ NonZero(rhs)) =>
        /\ Val(result[1]) = PolyMod(Val(arg), Val(rhs))
        /\ (Deg(Val(rhs)) >= 1 =>
              (Val(result[1]) = 0 \/ Deg(Val(result[1])) < Deg(Val(rhs))))

\* C7 amended: for a non-zero divisor d the value r that a / d returns is
\* congruent to a modulo d over GF(2) and numerically below d: it is the
\* GF(2) remainder or that remainder XOR d, so its degree is at most, not
\* strictly below, the degree of d.
C7_RemainderCongruentAndBelow ==
    (op = "div" /\ pc = "done" /\ NonZero(rhs)) =>
        /\ Val(result[1]) < Val(rhs)
        /\ Val(result[1]) \in {PolyMod(Val(arg), Val(rhs)),
                               XorNat(PolyMod(Val(arg), Val(rhs)), Val(rhs))}
        /\ Deg(Val(result[1])) <= Deg(Val(rhs))

\* The test vector of div_test_vectors: [0x3f, 0x7e] / [0x01, 0x1b] has
\* returned [0x01, 0x1a], whose degree is that of the divisor.
C7_Witness ==
    /\ op = "div" /\ pc = "done"
    /\ arg = <<63, 126>> /\ rhs = <<1, 27>>
    /\ result = << <<1, 26>> >>
    /\ Deg(Val(result[1])) = Deg(Val(rhs))

----------------------------------------------------------------------------
(* C8.  Bounded division.                                                  *)

\* C8 as claimed: with a non-zero divisor the loop body runs at most N * 8
\* times and every execution strictly decreases the dividend's bit_len().
C8_BodyDecreasesBitLen ==
    /\ [](NonZero(rhs) => iters <= 8 * Len(self))
    /\ [][(div_step /\ NonZero(rhs)) => bit_len(self') < bit_len(self)]_vars

\* C8 amended: with a non-zero divisor the loop body runs at most N * 8
\* times, and every execution strictly decreases the dividend's bit_len()
\* except the one that takes the dividend 1 to 0 under the divisor 1, where
\* bit_len() is 0 before and after.
C8_BodyDecreasesBitLenOrClears ==
    /\ [](NonZero(rhs) => iters <= 8 * Len(self))
    /\ [][(div_step /\ NonZero(rhs)) =>
            \/ bit_len(self') < bit_len(self)
            \/ (Val(self) = 1 /\ Val(rhs) = 1 /\ Val(self') = 0)]_vars

\* A division by a non-zero divisor that ran the body N * 8 times.
C8_Witness ==
    /\ pc = "done" /\ NonZero(rhs)
    /\ Len(self) >= 2
    /\ iters = 8 * Len(self)

----------------------------------------------------------------------------
(* C9.  No overflow inside division.                                       *)

\* C9: whenever the loop body is about to run, self.bit_len() >=
\* rhs.bit_len(), so the shift amount does not underflow, and the shifted
\* divisor is rhs times 2^amount: no set bit is lost, and the highest set
\* bit of a non-zero rhs lands at position self.bit_len().
C9_NoOverflowInDivision ==
    /\ pc # "panicked"
    /\ InBody =>
        /\ bit_len(self) >= bit_len(rhs)
        /\ Val(shl(rhs, shift_amount(self, rhs)))
              = Val(rhs) * 2^(bit_len(self) - bit_len(rhs))
        /\ NonZero(rhs) => bit_len(shl(rhs, shift_amount(self, rhs))) = bit_len(self)

\* The body is about to shift a multi-byte divisor across a byte boundary by
\* an amount that is no multiple of 8.
C9_Witness ==
    /\ InBody
    /\ iters >= 1
    /\ Len(rhs) >= 2
    /\ rhs[1] # 0
    /\ rhs[2] # 0
    /\ (bit_len(self) - bit_len(rhs)) % 8 # 0

----------------------------------------------------------------------------
(* C10.  is_more_sign is the strict big-endian comparison.                 *)

StrictlyAbove(a, b) ==
    /\ is_more_sign(a, b) = (a # b /\ WinsAtTopDifference(a, b))
    /\ is_more_sign(a, b) = (Val(a) > Val(b))
    /\ ~is_more_sign(a, a)
    /\ ~(is_more_sign(a, b) /\ is_more_sign(b, a))

\* C10: on the operands the loop test compares, in both orders,
\* a.is_more_sign(b) is true iff a # b and a has the 1-bit at the most
\* significant position where they differ, iff a > b as big-endian unsigned
\* integers; a.is_more_sign(a) is false; never both orders true.
C10_IsMoreSignIsStrictOrder ==
    (pc \in {"div", "done"}) =>
        /\ StrictlyAbove(rhs, self) /\ StrictlyAbove(self, rhs)
        /\ StrictlyAbove(rhs, arg) /\ StrictlyAbove(arg, rhs)

\* Two polynomials that agree on the first byte and differ in the second in
\* more than one bit, the lower of the two having more set bits.
C10_Witness ==
    /\ pc = "div"
    /\ iters >= 1
    /\ Len(self) >= 2
    /\ self[1] = rhs[1] /\ self[1] # 0
    /\ self[2] # rhs[2]
    /\ is_more_sign(rhs, self)
    /\ PopCount(self[2]) > PopCount(rhs[2])

----------------------------------------------------------------------------
(* C11.  Validity is GF(2) divisibility.                                   *)

\* The division of a call with a non-zero generator has returned.
Divided == pc \in {"ret", "done"} /\ polynomial # 0

\* C11: for a non-zero generator byte g the remainder the division returns
\* has bytes 0..N-2 zero and a value numerically below g, and
\* has_valid_crc8(s, g) returns true iff s, read as a big-endian GF(2)
\* polynomial, is a polynomial multiple of g.
C11_ValidIffMultipleOfGenerator ==
    /\ Divided =>
        /\ \A i \in 1..(Len(self) - 1) : self[i] = 0
        /\ Val(self) < polynomial
    /\ (Divided /\ pc = "done" /\ op = "has_valid_crc8") =>
        result = <<PolyMod(Val(arg), polynomial) = 0>>

\* has_valid_crc8 returned true on a non-zero two-byte buffer that was never
\* signed, under a generator with several set bits, after the loop body ran.
C11_Witness ==
    /\ Divided /\ pc = "done" /\ op = "has_valid_crc8"
    /\ prior = <<>>
    /\ Len(arg) >= 2
    /\ arg[1] # 0
    /\ PopCount(polynomial) >= 2
    /\ iters >= 2
    /\ result = <<TRUE>>

====
